---- MODULE Spec2Model ----
(***************************************************************************)
(* DeepLearningLibrary: activation functions, their gradients and the      *)
(* loss functions, modelled as a library of pure functions that a caller   *)
(* invokes one call at a time.                                             *)
(*                                                                         *)
(* Numbers.  A C++ float is a pair <<m, e>> of integers:                   *)
(*     <<m, e>> with 2^23 <= |m| < 2^24    the binary32 value m * 2^e      *)
(*     <<0, 0>>  zero                                                      *)
(*     <<1, 1000>>  +infinity    <<-1, 1000>>  -infinity    <<0, 1000>> NaN*)
(* The operators F* are the IEEE-754 binary32 operations, rounding to      *)
(* nearest with ties to even.  The sign of zero is not represented, and    *)
(* the exponent is not limited: no operation on the bounded inputs leaves  *)
(* the range of the normal numbers.  std::log and std::exp are tabulated   *)
(* with the binary32 results of the C library for the arguments that the   *)
(* bounded inputs produce.                                                 *)
(*                                                                         *)
(* Sequences are 1-based here and 0-based in the source; an index that the *)
(* program computes from data (a class index) is kept 0-based and shifted  *)
(* at the point of the read.                                               *)
(***************************************************************************)
EXTENDS Integers, Sequences, FiniteSets, TLC

VARIABLES fn, args, out

vars == <<fn, args, out>>

(***************************************************************************)
(* Bounds of the model.                                                    *)
(***************************************************************************)
MaxLen == 2        \* longest scalar sequence passed to a scalar loss
MaxBatch == 2      \* most samples in a batch
MaxClasses == 2    \* most classes in one sample
MaxCells == 4      \* most scalars in the two batches of one call together
MaxLogits == 3     \* longest logits sequence passed to softmax_gradient
MaxX == 6          \* activation inputs range over -MaxX/2 .. MaxX/2 in halves

(***************************************************************************)
(* float arithmetic (IEEE-754 binary32, round to nearest, ties to even)    *)
(***************************************************************************)
IAbs(i) == IF i < 0 THEN -i ELSE i

ISign(i) == IF i < 0 THEN -1 ELSE IF i > 0 THEN 1 ELSE 0

\* the number of bits of a natural number
RECURSIVE BitLen(_)
BitLen(M) == IF M = 0 THEN 0 ELSE 1 + BitLen(M \div 2)

NaN == <<0, 1000>>
PosInf == <<1, 1000>>
NegInf == <<-1, 1000>>
Zero == <<0, 0>>

IsNaN(x) == x = NaN
IsInf(x) == x = PosInf \/ x = NegInf
IsFinite(x) == ~IsNaN(x) /\ ~IsInf(x)
FSign(x) == ISign(x[1])

\* The float nearest to s * (M + f) * 2^e, where s is the sign, M < 2^31 a
\* natural number and 0 < f < 1 when sticky (a non-zero part below M's last
\* bit was dropped), f = 0 otherwise.  A sticky M has more than 24 bits.
Pack(s, M, e, sticky) ==
    IF M = 0 THEN Zero
    ELSE LET b == BitLen(M)
         IN  IF b <= 24
             THEN <<s * M * 2 ^ (24 - b), e - (24 - b)>>
             ELSE LET k == b - 24
                      q == M \div 2 ^ k
                      rem == M % 2 ^ k
                      half == 2 ^ (k - 1)
                      up == rem > half \/ (rem = half /\ (sticky \/ q % 2 = 1))
                      q1 == IF up THEN q + 1 ELSE q
                  IN  IF q1 = 2 ^ 24 THEN <<s * 2 ^ 23, e + k + 1>>
                      ELSE <<s * q1, e + k>>

\* the float n / 2^k, for the literals and the inputs
Dy(n, k) == Pack(ISign(n), IAbs(n), -k, FALSE)

One == Dy(1, 0)
Half == Dy(1, 1)

\* int or size_t converted to float
ToFloat(i) == Pack(ISign(i), IAbs(i), 0, FALSE)

FNeg(x) == <<-x[1], x[2]>>

FAbs(x) == <<IAbs(x[1]), x[2]>>

FAdd(x, y) ==
    IF IsNaN(x) \/ IsNaN(y) THEN NaN
    ELSE IF IsInf(x) /\ IsInf(y) THEN (IF x = y THEN x ELSE NaN)
    ELSE IF IsInf(x) THEN x
    ELSE IF IsInf(y) THEN y
    ELSE IF x[1] = 0 THEN y
    ELSE IF y[1] = 0 THEN x
    ELSE LET xbig == x[2] > y[2] \/ (x[2] = y[2] /\ IAbs(x[1]) >= IAbs(y[1]))
             big == IF xbig THEN x ELSE y
             small == IF xbig THEN y ELSE x
             d == big[2] - small[2]
             M1 == IAbs(big[1]) * 8
             a2 == IAbs(small[1])
             Y == IF d <= 3 THEN a2 * 2 ^ (3 - d)
                  ELSE IF d >= 27 THEN 0
                  ELSE a2 \div 2 ^ (d - 3)
             lost == IF d <= 3 THEN FALSE
                     ELSE IF d >= 27 THEN TRUE
                     ELSE a2 % 2 ^ (d - 3) # 0
         IN  IF FSign(big) = FSign(small)
             THEN Pack(FSign(big), M1 + Y, big[2] - 3, lost)
             ELSE IF lost
             THEN Pack(FSign(big), M1 - Y - 1, big[2] - 3, TRUE)
             ELSE Pack(FSign(big), M1 - Y, big[2] - 3, FALSE)

FSub(x, y) == FAdd(x, FNeg(y))

FMul(x, y) ==
    IF IsNaN(x) \/ IsNaN(y) THEN NaN
    ELSE IF IsInf(x) \/ IsInf(y)
         THEN (IF FSign(x) * FSign(y) = 0 THEN NaN ELSE <<FSign(x) * FSign(y), 1000>>)
    ELSE IF x[1] = 0 \/ y[1] = 0 THEN Zero
    ELSE LET a1 == IAbs(x[1]) \div 4096
             b1 == IAbs(x[1]) % 4096
             a2 == IAbs(y[1]) \div 4096
             b2 == IAbs(y[1]) % 4096
             mid == a1 * b2 + a2 * b1
             low == (mid % 4096) * 4096 + b1 * b2
             high == a1 * a2 + mid \div 4096 + low \div 2 ^ 24
             rest == low % 2 ^ 24
             \* |x[1]| * |y[1]| = high * 2^24 + rest
         IN  Pack(FSign(x) * FSign(y), high * 16 + rest \div 2 ^ 20,
                  x[2] + y[2] + 20, rest % 2 ^ 20 # 0)

\* bits more bits of the quotient by den: <<quotient, remainder>>
DivStep(qr, den, bits) ==
    <<qr[1] * 2 ^ bits + (qr[2] * 2 ^ bits) \div den, (qr[2] * 2 ^ bits) % den>>

FDiv(x, y) ==
    IF IsNaN(x) \/ IsNaN(y) THEN NaN
    ELSE IF IsInf(x) /\ IsInf(y) THEN NaN
    ELSE IF IsInf(y) THEN Zero
    ELSE IF IsInf(x) THEN <<FSign(x) * (IF FSign(y) < 0 THEN -1 ELSE 1), 1000>>
    ELSE IF y[1] = 0 THEN (IF x[1] = 0 THEN NaN ELSE <<FSign(x), 1000>>)
    ELSE IF x[1] = 0 THEN Zero
    ELSE LET num == IAbs(x[1])
             den == IAbs(y[1])
             q0 == <<num \div den, num % den>>
             q1 == DivStep(q0, den, 6)
             q2 == DivStep(q1, den, 6)
             q3 == DivStep(q2, den, 6)
             q4 == DivStep(q3, den, 6)
             q5 == DivStep(q4, den, 3)
             \* num / den = (q5[1] + q5[2] / den) / 2^27
         IN  Pack(FSign(x) * FSign(y), q5[1], x[2] - y[2] - 27, q5[2] # 0)

\* x < y on floats: false when either is NaN
FLess(x, y) ==
    IF IsNaN(x) \/ IsNaN(y) THEN FALSE
    ELSE IF FSign(x) # FSign(y) THEN FSign(x) < FSign(y)
    ELSE IF FSign(x) = 0 THEN FALSE
    ELSE IF FSign(x) > 0
         THEN x[2] < y[2] \/ (x[2] = y[2] /\ x[1] < y[1])
         ELSE y[2] < x[2] \/ (x[2] = y[2] /\ x[1] < y[1])

FGreater(x, y) == FLess(y, x)

\* x <= y on floats: false when either is NaN
FLeq(x, y) == ~IsNaN(x) /\ ~IsNaN(y) /\ ~FLess(y, x)

\* std::max(a, b) is (a < b) ? b : a
FMax(a, b) == IF FLess(a, b) THEN b ELSE a

\* std::log on float, as the C library computes it for the arguments that the
\* bounded inputs produce
FLog(x) ==
    IF IsNaN(x) THEN NaN
    ELSE IF x = PosInf THEN PosInf
    ELSE IF FSign(x) < 0 THEN NaN
    ELSE IF FSign(x) = 0 THEN NegInf
    ELSE CASE x = Dy(1, 2) -> <<-11629080, -23>>   \* log(0.25) = -1.38629436
           [] x = Dy(2, 2) -> <<-11629080, -24>>   \* log(0.5) = -0.693147182
           [] x = Dy(3, 2) -> <<-9653009, -25>>    \* log(0.75) = -0.287682086
           [] x = Dy(4, 2) -> Zero                 \* log(1) = 0
           [] x = Dy(5, 2) -> <<14974910, -26>>    \* log(1.25) = 0.223143548
           [] x = Dy(6, 2) -> <<13605151, -25>>    \* log(1.5) = 0.405465096
           [] x = Dy(7, 2) -> <<9388795, -24>>     \* log(1.75) = 0.559615791
           [] x = Dy(8, 2) -> <<11629080, -24>>    \* log(2) = 0.693147182
           [] x = Dy(12, 2) -> <<9215828, -23>>    \* log(3) = 1.09861231
           [] x = Dy(16, 2) -> <<11629080, -23>>   \* log(4) = 1.38629436

\* std::exp on float, as the C library computes it for the arguments that the
\* bounded inputs produce
FExp(x) ==
    IF IsNaN(x) THEN NaN
    ELSE IF x = PosInf THEN PosInf
    ELSE IF x = NegInf THEN Zero
    ELSE CASE x = Zero -> One                      \* exp(0) = 1
           [] x = Dy(-1, 0) -> <<12343986, -25>>   \* exp(-1) = 0.36787945
           [] x = Dy(-2, 0) -> <<9082197, -26>>    \* exp(-2) = 0.135335281
           [] x = Dy(-3, 0) -> <<13364614, -28>>   \* exp(-3) = 0.0497870669
           [] x = Dy(-4, 0) -> <<9833134, -29>>    \* exp(-4) = 0.0183156393
           [] x = Dy(-5, 0) -> <<14469631, -31>>   \* exp(-5) = 0.006737947
           [] x = Dy(-6, 0) -> <<10646160, -32>>   \* exp(-6) = 0.00247875229

(***************************************************************************)
(* What a call produces.  err is "none" when the call returned val, and    *)
(* the C++ exception type when it threw (what is the exception's message). *)
(* terms counts the loss terms added to the accumulator before the exit.   *)
(***************************************************************************)
Returned(v, n) == [err |-> "none", what |-> "", val |-> v, terms |-> n]

Thrown(kind, msg, n) == [err |-> kind, what |-> msg, val |-> NaN, terms |-> n]

SameSizeMsg == "Predictions and targets must have the same size."
EmptyMsg == "Predictions and targets cannot be empty."
ClassCountMsg == "Each prediction and target must have the same number of classes."
PredRangeMsg == "Predictions must be in the range [0, 1]."
TargRangeMsg == "Targets must be in the range [0, 1]."
IndexMsg == "Target index is out of range for predictions."
HingeMsg == "Targets must be -1 or 1."

\* x < 0.0f || x > 1.0f
OutsideUnit(x) == FLess(x, Zero) \/ FGreater(x, One)

(***************************************************************************)
(* loss functions over scalar sequences                                    *)
(***************************************************************************)
RECURSIVE mse_loop(_, _, _, _)
mse_loop(predictions, targets, i, mse) ==
    IF i > Len(predictions) THEN mse
    ELSE LET error == FSub(predictions[i], targets[i])
         IN  mse_loop(predictions, targets, i + 1, FAdd(mse, FMul(error, error)))

mean_squared_error(predictions, targets) ==
    IF Len(predictions) # Len(targets)
    THEN Thrown("invalid_argument", SameSizeMsg, 0)
    ELSE Returned(FDiv(mse_loop(predictions, targets, 1, Zero),
                       ToFloat(Len(predictions))),
                  Len(predictions))

RECURSIVE mae_loop(_, _, _, _)
mae_loop(predictions, targets, i, mae) ==
    IF i > Len(predictions) THEN mae
    ELSE mae_loop(predictions, targets, i + 1,
                  FAdd(mae, FAbs(FSub(predictions[i], targets[i]))))

mean_absolute_error(predictions, targets) ==
    IF Len(predictions) # Len(targets)
    THEN Thrown("invalid_argument", SameSizeMsg, 0)
    ELSE Returned(FDiv(mae_loop(predictions, targets, 1, Zero),
                       ToFloat(Len(predictions))),
                  Len(predictions))

\* targets[i] * log(predictions[i]) + (1 - targets[i]) * log(1 - predictions[i])
bce_term(p, t) ==
    FAdd(FMul(t, FLog(p)), FMul(FSub(One, t), FLog(FSub(One, p))))

RECURSIVE bce_loop(_, _, _, _)
bce_loop(predictions, targets, i, bce) ==
    IF i > Len(predictions) THEN Returned(bce, i - 1)
    ELSE IF OutsideUnit(predictions[i])
         THEN Thrown("out_of_range", PredRangeMsg, i - 1)
    ELSE IF OutsideUnit(targets[i])
         THEN Thrown("out_of_range", TargRangeMsg, i - 1)
    ELSE bce_loop(predictions, targets, i + 1,
                  FAdd(bce, bce_term(predictions[i], targets[i])))

\* binary_cross_entropy with the emptiness check made after the length check
binary_cross_entropy_size_first(predictions, targets) ==
    IF Len(predictions) # Len(targets)
    THEN Thrown("invalid_argument", SameSizeMsg, 0)
    ELSE IF Len(predictions) = 0
    THEN Thrown("invalid_argument", EmptyMsg, 0)
    ELSE LET r == bce_loop(predictions, targets, 1, Zero)
         IN  IF r.err # "none" THEN r
             ELSE Returned(FDiv(FNeg(r.val), ToFloat(Len(predictions))), r.terms)

binary_cross_entropy(predictions, targets) ==
    IF Len(predictions) = 0
    THEN Thrown("invalid_argument", EmptyMsg, 0)
    ELSE IF Len(predictions) # Len(targets)
    THEN Thrown("invalid_argument", SameSizeMsg, 0)
    ELSE LET r == bce_loop(predictions, targets, 1, Zero)
         IN  IF r.err # "none" THEN r
             ELSE Returned(FDiv(FNeg(r.val), ToFloat(Len(predictions))), r.terms)

\* huber_term with the 0.5 of the linear branch lost
huber_term_no_half(error, delta) ==
    IF FLeq(FAbs(error), delta)
    THEN FMul(FMul(Half, error), error)
    ELSE FMul(delta, FSub(FAbs(error), delta))

\* one sample of the Huber loss
huber_term(error, delta) ==
    IF FLeq(FAbs(error), delta)
    THEN FMul(FMul(Half, error), error)
    ELSE FMul(delta, FSub(FAbs(error), FMul(Half, delta)))

RECURSIVE huber_loop(_, _, _, _, _)
huber_loop(predictions, targets, delta, i, loss) ==
    IF i > Len(predictions) THEN loss
    ELSE huber_loop(predictions, targets, delta, i + 1,
                    FAdd(loss, huber_term(FSub(predictions[i], targets[i]), delta)))

huber_loss(predictions, targets, delta) ==
    IF Len(predictions) # Len(targets)
    THEN Thrown("invalid_argument", SameSizeMsg, 0)
    ELSE Returned(FDiv(huber_loop(predictions, targets, delta, 1, Zero),
                       ToFloat(Len(predictions))),
                  Len(predictions))

\* targets[i] != -1 && targets[i] != 1
hinge_bad_target(t) == t # -1 /\ t # 1

RECURSIVE hinge_loop(_, _, _, _, _)
hinge_loop(predictions, targets, i, loss, n) ==
    IF i > Len(predictions) THEN Returned(loss, n)
    ELSE IF hinge_bad_target(targets[i])
         THEN Thrown("invalid_argument", HingeMsg, n)
    ELSE LET margin == FSub(One, FMul(ToFloat(targets[i]), predictions[i]))
         IN  IF FGreater(margin, Zero)
             THEN hinge_loop(predictions, targets, i + 1, FAdd(loss, margin), n + 1)
             ELSE hinge_loop(predictions, targets, i + 1, loss, n)

hinge_loss(predictions, targets) ==
    IF Len(predictions) # Len(targets)
    THEN Thrown("invalid_argument", SameSizeMsg, 0)
    ELSE LET r == hinge_loop(predictions, targets, 1, Zero, 0)
         IN  IF r.err # "none" THEN r
             ELSE Returned(FDiv(r.val, ToFloat(Len(predictions))), r.terms)

(***************************************************************************)
(* loss functions over batches                                             *)
(***************************************************************************)
\* cce_row with != 0.0f for == 1.0f: every non-zero target counts as hot
RECURSIVE cce_row_nonzero_target(_, _, _, _, _)
cce_row_nonzero_target(prow, trow, j, cce, n) ==
    IF j > Len(prow) THEN <<cce, n>>
    ELSE IF trow[j] # Zero
         THEN cce_row_nonzero_target(prow, trow, j + 1, FSub(cce, FLog(prow[j])), n + 1)
         ELSE cce_row_nonzero_target(prow, trow, j + 1, cce, n)

\* the inner loop of categorical_cross_entropy over the classes of one sample:
\* <<cce, terms>> after the classes j, j+1, ...
RECURSIVE cce_row(_, _, _, _, _)
cce_row(prow, trow, j, cce, n) ==
    IF j > Len(prow) THEN <<cce, n>>
    ELSE IF trow[j] = One
         THEN cce_row(prow, trow, j + 1, FSub(cce, FLog(prow[j])), n + 1)
         ELSE cce_row(prow, trow, j + 1, cce, n)

RECURSIVE cce_loop(_, _, _, _, _)
cce_loop(predictions, targets, i, cce, n) ==
    IF i > Len(predictions) THEN Returned(cce, n)
    ELSE IF Len(predictions[i]) # Len(targets[i])
         THEN Thrown("invalid_argument", ClassCountMsg, n)
    ELSE LET r == cce_row(predictions[i], targets[i], 1, cce, n)
         IN  cce_loop(predictions, targets, i + 1, r[1], r[2])

categorical_cross_entropy(predictions, targets) ==
    IF Len(predictions) # Len(targets)
    THEN Thrown("invalid_argument", SameSizeMsg, 0)
    ELSE LET r == cce_loop(predictions, targets, 1, Zero, 0)
         IN  IF r.err # "none" THEN r
             ELSE Returned(FDiv(r.val, ToFloat(Len(predictions))), r.terms)

\* sparse_bad_index with > for >=: the index one past the last class passes
sparse_bad_index_off_by_one(t, size) == t < 0 \/ t > size

\* targets[i] < 0 || targets[i] >= predictions[i].size(); the comparison with
\* size() is unsigned, and is reached only with targets[i] >= 0
sparse_bad_index(t, size) == t < 0 \/ t >= size

\* reads lists the positions <<i, k>> (0-based) of predictions[i][k] read so far
RECURSIVE sparse_loop(_, _, _, _, _)
sparse_loop(predictions, targets, i, loss, reads) ==
    IF i > Len(predictions)
    THEN [err |-> "none", what |-> "", val |-> loss, terms |-> i - 1, reads |-> reads]
    ELSE IF sparse_bad_index(targets[i], Len(predictions[i]))
    THEN [err |-> "out_of_range", what |-> IndexMsg, val |-> NaN,
          terms |-> i - 1, reads |-> reads]
    ELSE IF targets[i] \notin 0 .. (Len(predictions[i]) - 1)
    THEN \* operator[] past the end of the vector: undefined behaviour
         [err |-> "undefined_behaviour", what |-> "", val |-> NaN,
          terms |-> i - 1, reads |-> Append(reads, <<i - 1, targets[i]>>)]
    ELSE sparse_loop(predictions, targets, i + 1,
                     FSub(loss, FLog(predictions[i][targets[i] + 1])),
                     Append(reads, <<i - 1, targets[i]>>))

sparse_categorical_cross_entropy(predictions, targets) ==
    IF Len(predictions) # Len(targets)
    THEN [err |-> "invalid_argument", what |-> SameSizeMsg, val |-> NaN,
          terms |-> 0, reads |-> <<>>]
    ELSE LET r == sparse_loop(predictions, targets, 1, Zero, <<>>)
         IN  IF r.err # "none" THEN r
             ELSE [r EXCEPT !.val = FDiv(r.val, ToFloat(Len(predictions)))]

\* kl_row with the t = 0 test moved before the range checks
RECURSIVE kl_row_skip_first(_, _, _, _, _)
kl_row_skip_first(prow, trow, j, kl_div, n) ==
    IF j > Len(prow) THEN Returned(kl_div, n)
    ELSE IF trow[j] = Zero THEN kl_row_skip_first(prow, trow, j + 1, kl_div, n)
    ELSE IF OutsideUnit(prow[j]) THEN Thrown("out_of_range", PredRangeMsg, n)
    ELSE IF OutsideUnit(trow[j]) THEN Thrown("out_of_range", TargRangeMsg, n)
    ELSE kl_row_skip_first(prow, trow, j + 1,
                FAdd(kl_div, FMul(trow[j], FLog(FDiv(trow[j], prow[j])))), n + 1)

\* the inner loop of kullback_leibler_divergence over the classes of one sample
RECURSIVE kl_row(_, _, _, _, _)
kl_row(prow, trow, j, kl_div, n) ==
    IF j > Len(prow) THEN Returned(kl_div, n)
    ELSE IF OutsideUnit(prow[j]) THEN Thrown("out_of_range", PredRangeMsg, n)
    ELSE IF OutsideUnit(trow[j]) THEN Thrown("out_of_range", TargRangeMsg, n)
    ELSE IF trow[j] = Zero THEN kl_row(prow, trow, j + 1, kl_div, n)
    ELSE kl_row(prow, trow, j + 1,
                FAdd(kl_div, FMul(trow[j], FLog(FDiv(trow[j], prow[j])))), n + 1)

RECURSIVE kl_loop(_, _, _, _, _)
kl_loop(predictions, targets, i, kl_div, n) ==
    IF i > Len(predictions) THEN Returned(kl_div, n)
    ELSE IF Len(predictions[i]) # Len(targets[i])
         THEN Thrown("invalid_argument", ClassCountMsg, n)
    ELSE LET r == kl_row(predictions[i], targets[i], 1, kl_div, n)
         IN  IF r.err # "none" THEN r
             ELSE kl_loop(predictions, targets, i + 1, r.val, r.terms)

kullback_leibler_divergence(predictions, targets) ==
    IF Len(predictions) # Len(targets)
    THEN Thrown("invalid_argument", SameSizeMsg, 0)
    ELSE LET r == kl_loop(predictions, targets, 1, Zero, 0)
         IN  IF r.err # "none" THEN r
             ELSE Returned(FDiv(r.val, ToFloat(Len(predictions))), r.terms)

(***************************************************************************)
(* activation functions and gradients                                      *)
(***************************************************************************)
relu(x) == FMax(x, Zero)

\* relu_gradient with >= for >: the gradient at 0 becomes 1
relu_gradient_one_at_zero(x) == IF FLeq(Zero, x) THEN One ELSE Zero

relu_gradient(x) == IF FGreater(x, Zero) THEN One ELSE Zero

binary_step_gradient(x) == IF x = Zero THEN Zero ELSE One

\* *std::max_element(begin, end) of a non-empty sequence: the first largest
RECURSIVE max_element(_, _, _)
max_element(logits, i, best) ==
    IF i > Len(logits) THEN best
    ELSE max_element(logits, i + 1,
                     IF FLess(best, logits[i]) THEN logits[i] ELSE best)

RECURSIVE sum_exp_loop(_, _, _, _)
sum_exp_loop(logits, max_logit, i, sum_exp) ==
    IF i > Len(logits) THEN sum_exp
    ELSE sum_exp_loop(logits, max_logit, i + 1,
                      FAdd(sum_exp, FExp(FSub(logits[i], max_logit))))

softmax_values(logits) ==
    LET max_logit == max_element(logits, 2, logits[1])
        sum_exp == sum_exp_loop(logits, max_logit, 1, Zero)
    IN  [i \in 1 .. Len(logits) |->
            FDiv(FExp(FSub(logits[i], max_logit)), sum_exp)]

\* jacobian_entry with the negation of the off-diagonal product lost
jacobian_entry_unsigned(p, i, j) ==
    IF i = j THEN FMul(p[i], FSub(One, p[i]))
    ELSE FMul(p[i], p[j])

jacobian_entry(p, i, j) ==
    IF i = j THEN FMul(p[i], FSub(One, p[i]))
    ELSE FMul(FNeg(p[i]), p[j])

\* An empty logits makes max_element return end(), and dereferencing it is
\* undefined behaviour: the read of logits[0] either faults (fault = TRUE) or
\* yields some value that the rest of the function never uses.
\* reads is the set of indices (0-based) of logits that are dereferenced.
softmax_gradient(logits, fault) ==
    LET n == Len(logits)
    IN  IF n = 0
        THEN IF fault
             THEN [err |-> "fault", val |-> <<>>, reads |-> {0}]
             ELSE [err |-> "none", val |-> <<>>, reads |-> {0}]
        ELSE LET p == softmax_values(logits)
             IN  [err |-> "none",
                  val |-> [i \in 1 .. n |-> [j \in 1 .. n |-> jacobian_entry(p, i, j)]],
                  reads |-> 0 .. (n - 1)]

(***************************************************************************)
(* The inputs a caller passes.                                             *)
(***************************************************************************)
IMin(a, b) == IF a < b THEN a ELSE b

\* the sequences over S of length at most n
SeqsUpTo(S, n) == UNION {[1 .. k -> S] : k \in 0 .. n}

\* the batches over S of exactly n samples that hold at most c scalars together
RECURSIVE BatchesOf(_, _, _)
BatchesOf(S, n, c) ==
    IF n = 0 THEN {<<>>}
    ELSE UNION {{<<row>> \o rest : rest \in BatchesOf(S, n - 1, c - Len(row))} :
                row \in SeqsUpTo(S, IMin(MaxClasses, c))}

\* the batches over S that hold at most c scalars
Batches(S, c) == UNION {BatchesOf(S, n, c) : n \in 0 .. MaxBatch}

RECURSIVE Cells(_)
Cells(batch) == IF batch = <<>> THEN 0 ELSE Len(Head(batch)) + Cells(Tail(batch))

ActVals == {Dy(k, 1) : k \in (-MaxX) .. MaxX}
LogitVals == {Dy(-2, 0), Zero, One, Dy(2, 0)}
LossVals == {Dy(-1, 1), Zero, Dy(3, 2), Dy(3, 0)}
\* 13421773 / 2^24 is 0.8f
HingeVals == {Dy(-1, 1), Zero, Dy(13421773, 24), Dy(3, 0)}
ProbVals == {Dy(-1, 1), Zero, Half, One, Dy(3, 1)}
DeltaVals == {Dy(-1, 0), Zero, Half, One}
HingeTargets == {-1, 0, 1, 2}
ClassIndices == {-1, 0, 1, 2}
SparseVals == {Dy(-1, 1), Zero, Half, Dy(3, 2)}
CcePredVals == {Dy(-1, 1), Zero, Half, Dy(3, 1)}
CceTargVals == {Zero, Half, One}
KlPredVals == {Dy(-1, 1), Zero, Half, Dy(3, 1)}
KlTargVals == {Zero, Half, One, Dy(3, 1)}

(***************************************************************************)
(* The caller: one call at a time; the result is looked at, then dropped.  *)
(***************************************************************************)
NoCall == [err |-> "idle"]

Init == fn = "idle" /\ args = <<>> /\ out = NoCall

Call_relu ==
    /\ fn = "idle"
    /\ \E x \in ActVals :
          /\ fn' = "relu"
          /\ args' = <<x>>
          /\ out' = [err |-> "none", val |-> relu(x)]

Call_relu_gradient ==
    /\ fn = "idle"
    /\ \E x \in ActVals :
          /\ fn' = "relu_gradient"
          /\ args' = <<x>>
          /\ out' = [err |-> "none", val |-> relu_gradient(x)]

Call_binary_step_gradient ==
    /\ fn = "idle"
    /\ \E x \in ActVals :
          /\ fn' = "binary_step_gradient"
          /\ args' = <<x>>
          /\ out' = [err |-> "none", val |-> binary_step_gradient(x)]

Call_softmax_gradient ==
    /\ fn = "idle"
    /\ \E logits \in SeqsUpTo(LogitVals, MaxLogits) :
       \E fault \in (IF logits = <<>> THEN BOOLEAN ELSE {FALSE}) :
          /\ fn' = "softmax_gradient"
          /\ args' = <<logits>>
          /\ out' = softmax_gradient(logits, fault)

Call_mean_squared_error ==
    /\ fn = "idle"
    /\ \E p \in SeqsUpTo(LossVals, MaxLen), t \in SeqsUpTo(LossVals, MaxLen) :
          /\ fn' = "mean_squared_error"
          /\ args' = <<p, t>>
          /\ out' = mean_squared_error(p, t)

Call_mean_absolute_error ==
    /\ fn = "idle"
    /\ \E p \in SeqsUpTo(LossVals, MaxLen), t \in SeqsUpTo(LossVals, MaxLen) :
          /\ fn' = "mean_absolute_error"
          /\ args' = <<p, t>>
          /\ out' = mean_absolute_error(p, t)

Call_binary_cross_entropy ==
    /\ fn = "idle"
    /\ \E p \in SeqsUpTo(ProbVals, MaxLen), t \in SeqsUpTo(ProbVals, MaxLen) :
          /\ fn' = "binary_cross_entropy"
          /\ args' = <<p, t>>
          /\ out' = binary_cross_entropy(p, t)

Call_huber_loss ==
    /\ fn = "idle"
    /\ \E p \in SeqsUpTo(LossVals, MaxLen), t \in SeqsUpTo(LossVals, MaxLen),
          delta \in DeltaVals :
          /\ fn' = "huber_loss"
          /\ args' = <<p, t, delta>>
          /\ out' = huber_loss(p, t, delta)

Call_hinge_loss ==
    /\ fn = "idle"
    /\ \E p \in SeqsUpTo(HingeVals, MaxLen), t \in SeqsUpTo(HingeTargets, MaxLen) :
          /\ fn' = "hinge_loss"
          /\ args' = <<p, t>>
          /\ out' = hinge_loss(p, t)

Call_categorical_cross_entropy ==
    /\ fn = "idle"
    /\ \E p \in Batches(CcePredVals, MaxCells) :
       \E t \in Batches(CceTargVals, MaxCells - Cells(p)) :
          /\ fn' = "categorical_cross_entropy"
          /\ args' = <<p, t>>
          /\ out' = categorical_cross_entropy(p, t)

Call_sparse_categorical_cross_entropy ==
    /\ fn = "idle"
    /\ \E p \in Batches(SparseVals, MaxCells) :
       \E t \in SeqsUpTo(ClassIndices, IMin(MaxBatch, MaxCells - Cells(p))) :
          /\ fn' = "sparse_categorical_cross_entropy"
          /\ args' = <<p, t>>
          /\ out' = sparse_categorical_cross_entropy(p, t)

Call_kullback_leibler_divergence ==
    /\ fn = "idle"
    /\ \E p \in Batches(KlPredVals, MaxCells) :
       \E t \in Batches(KlTargVals, MaxCells - Cells(p)) :
          /\ fn' = "kullback_leibler_divergence"
          /\ args' = <<p, t>>
          /\ out' = kullback_leibler_divergence(p, t)

Return ==
    /\ fn # "idle"
    /\ fn' = "idle"
    /\ args' = <<>>
    /\ out' = NoCall

NextAct ==
    \/ Call_relu
    \/ Call_relu_gradient
    \/ Call_binary_step_gradient
    \/ Call_softmax_gradient
    \/ Return

NextScalar ==
    \/ Call_mean_squared_error
    \/ Call_mean_absolute_error
    \/ Call_binary_cross_entropy
    \/ Call_huber_loss
    \/ Call_hinge_loss
    \/ Return

NextSparse == Call_sparse_categorical_cross_entropy \/ Return

NextCce == Call_categorical_cross_entropy \/ Return

NextKl == Call_kullback_leibler_divergence \/ Return

NextLoss ==
    \/ Call_mean_squared_error
    \/ Call_mean_absolute_error
    \/ Call_binary_cross_entropy
    \/ Call_huber_loss
    \/ Call_hinge_loss
    \/ Call_categorical_cross_entropy
    \/ Call_sparse_categorical_cross_entropy
    \/ Call_kullback_leibler_divergence
    \/ Return

Next == NextAct \/ NextLoss

SpecAct == Init /\ [][NextAct]_vars
SpecScalar == Init /\ [][NextScalar]_vars
SpecSparse == Init /\ [][NextSparse]_vars
SpecCce == Init /\ [][NextCce]_vars
SpecKl == Init /\ [][NextKl]_vars
SpecLoss == Init /\ [][NextLoss]_vars
Spec == Init /\ [][Next]_vars

(***************************************************************************)
(* Vocabulary of the properties.                                           *)
(***************************************************************************)
Preds == args[1]
Targs == args[2]

ScalarLosses == {"mean_squared_error", "mean_absolute_error", "binary_cross_entropy",
                 "huber_loss", "hinge_loss"}
BatchedLosses == {"categorical_cross_entropy", "kullback_leibler_divergence"}
LossNames == ScalarLosses \cup BatchedLosses \cup {"sparse_categorical_cross_entropy"}

\* the two collections differ in length at the top level
TopMismatch == Len(Preds) # Len(Targs)

\* some sample's prediction and target class counts differ (batched losses)
ClassMismatch ==
    \E i \in 1 .. IMin(Len(Preds), Len(Targs)) : Len(Preds[i]) # Len(Targs[i])

\* equal lengths at every nesting level
ShapeValid ==
    /\ ~TopMismatch
    /\ fn \in BatchedLosses => ~ClassMismatch

\* a finite value outside the interval [0, 1]
NotProbability(x) == IsFinite(x) /\ (FLess(x, Zero) \/ FLess(One, x))

\* the scalars of a sequence or of a batch
ScalarsOf(c) ==
    IF fn \in BatchedLosses
    THEN UNION {{c[i][j] : j \in 1 .. Len(c[i])} : i \in 1 .. Len(c)}
    ELSE {c[i] : i \in 1 .. Len(c)}

\* the sum of a sequence of floats, added in order from 0, and its mean
RECURSIVE FSum(_)
FSum(seq) ==
    IF seq = <<>> THEN Zero
    ELSE FAdd(FSum(SubSeq(seq, 1, Len(seq) - 1)), seq[Len(seq)])

Mean(seq) == FDiv(FSum(seq), ToFloat(Len(seq)))

(***************************************************************************)
(* C1 (stated as claimed): a loss called with collections of different     *)
(* length, or a batched loss called with a sample whose prediction and     *)
(* target class counts differ, throws std::invalid_argument whatever the   *)
(* values in the inputs are.                                               *)
(***************************************************************************)
C1_ShapeCheckWins ==
    (fn \in LossNames /\ (TopMismatch \/ (fn \in BatchedLosses /\ ClassMismatch)))
        => out.err = "invalid_argument"

(***************************************************************************)
(* C2 (stated as claimed): binary_cross_entropy, categorical_cross_entropy *)
(* and kullback_leibler_divergence, called with shape-valid inputs that    *)
(* hold a prediction (for BCE and KL, or a target) outside [0,1], throw    *)
(* std::out_of_range and return no value.                                  *)
(***************************************************************************)
C2_ProbabilityRangeEnforced ==
    (/\ fn \in {"binary_cross_entropy", "categorical_cross_entropy",
                "kullback_leibler_divergence"}
     /\ ShapeValid
     /\ \/ \E x \in ScalarsOf(Preds) : NotProbability(x)
        \/ /\ fn # "categorical_cross_entropy"
           /\ \E x \in ScalarsOf(Targs) : NotProbability(x))
        => out.err = "out_of_range"

(***************************************************************************)
(* C3 (stated as claimed): hinge_loss called with equal-length inputs and  *)
(* a target that is neither -1 nor 1 throws std::out_of_range, not the     *)
(* std::invalid_argument of a length mismatch.                             *)
(***************************************************************************)
C3_HingeTargetIsDomainViolation ==
    (/\ fn = "hinge_loss"
     /\ ~TopMismatch
     /\ \E i \in 1 .. Len(Targs) : Targs[i] \notin {-1, 1})
        => (out.err = "out_of_range" /\ out.err # "invalid_argument")

\* targets[i] is an index into predictions[i]
ValidIndex(i) == 0 <= Targs[i] /\ Targs[i] < Len(Preds[i])

(***************************************************************************)
(* C4: sparse_categorical_cross_entropy with equal-length inputs throws    *)
(* std::out_of_range when some targets[i] is negative or not below the     *)
(* class count of predictions[i], never reads predictions[i][k] with k     *)
(* outside the sample, and with every index valid returns the mean over    *)
(* the samples of -ln(predictions[i][targets[i]]).                         *)
(***************************************************************************)
C4_SparseIndexChecked ==
    (fn = "sparse_categorical_cross_entropy" /\ ~TopMismatch) =>
        /\ (\E i \in 1 .. Len(Preds) : ~ValidIndex(i)) => out.err = "out_of_range"
        /\ out.err # "undefined_behaviour"
        /\ \A r \in 1 .. Len(out.reads) :
              /\ out.reads[r][1] \in 0 .. (Len(Preds) - 1)
              /\ out.reads[r][2] \in 0 .. (Len(Preds[out.reads[r][1] + 1]) - 1)
        /\ (\A i \in 1 .. Len(Preds) : ValidIndex(i)) =>
              /\ out.err = "none"
              /\ out.val = Mean([i \in 1 .. Len(Preds) |->
                                    FNeg(FLog(Preds[i][Targs[i] + 1]))])

\* two samples, both indices valid, one of them the last class of its sample
C4_Witness ==
    /\ fn = "sparse_categorical_cross_entropy"
    /\ Len(Preds) = 2 /\ Len(Targs) = 2
    /\ out.err = "none"
    /\ Len(out.reads) = 2
    /\ \E i \in 1 .. 2 : Targs[i] = Len(Preds[i]) - 1
    /\ IsFinite(out.val) /\ out.val # Zero

(***************************************************************************)
(* C5: binary_cross_entropy called with an empty prediction sequence       *)
(* throws std::invalid_argument from its emptiness check, whatever the     *)
(* targets are: the check comes before the length comparison and before    *)
(* any term is computed.                                                   *)
(***************************************************************************)
C5_BceEmptyRejectedFirst ==
    (fn = "binary_cross_entropy" /\ Preds = <<>>) =>
        /\ out.err = "invalid_argument"
        /\ out.what = EmptyMsg
        /\ out.terms = 0

\* empty predictions against targets of another length holding a bad value
C5_Witness ==
    /\ fn = "binary_cross_entropy"
    /\ Preds = <<>>
    /\ \E i \in 1 .. Len(Targs) : NotProbability(Targs[i])
    /\ out.what = EmptyMsg

(***************************************************************************)
(* C6 (stated as claimed): binary_step_gradient returns 0 for every input. *)
(***************************************************************************)
C6_BinaryStepGradientIsZero ==
    fn = "binary_step_gradient" => out.val = Zero

(***************************************************************************)
(* C7: relu(x) is max(x, 0); relu_gradient(x) is 1 for x > 0, 0 for x < 0  *)
(* and 0 at x = 0.                                                         *)
(***************************************************************************)
C7_ReluAndGradient ==
    LET x == args[1]
    IN  /\ fn = "relu" =>
             out.val = (IF x[1] > 0 THEN x ELSE Zero)
        /\ fn = "relu_gradient" =>
             /\ x[1] > 0 => out.val = One
             /\ x[1] < 0 => out.val = Zero
             /\ x[1] = 0 => out.val = Zero

\* the gradient taken at the kink
C7_Witness == fn = "relu_gradient" /\ args[1] = Zero /\ out.val = Zero

(***************************************************************************)
(* C8 (stated as claimed): for any vector p, the empty one included,       *)
(* mean_squared_error(p, p) and mean_absolute_error(p, p) return 0.        *)
(***************************************************************************)
C8_LossOfIdenticalIsZero ==
    (fn \in {"mean_squared_error", "mean_absolute_error"} /\ Preds = Targs) =>
        (out.err = "none" /\ out.val = Zero)

\* the largest element of a non-empty sequence of floats
LargestOf(seq) ==
    CHOOSE m \in {seq[i] : i \in 1 .. Len(seq)} :
        \A i \in 1 .. Len(seq) : FLeq(seq[i], m)

\* p_i = exp(l_i - max) / sum_k exp(l_k - max)
StableSoftmax(logits) ==
    LET m == LargestOf(logits)
        e == [i \in 1 .. Len(logits) |-> FExp(FSub(logits[i], m))]
    IN  [i \in 1 .. Len(logits) |-> FDiv(e[i], FSum(e))]

\* the rounding allowance for a sum of n terms of magnitude at most 1
Tolerance(n) == Dy(n, 22)

\* what the rows of J and the softmax p have in common, whatever their sums
JacobianShape(J, p, n) ==
    /\ out.err = "none"
    /\ \A i \in 1 .. n : FLeq(Zero, p[i])
    /\ Len(J) = n
    /\ \A i \in 1 .. n :
          /\ Len(J[i]) = n
          /\ J[i][i] = FMul(p[i], FSub(One, p[i]))
          /\ \A j \in 1 .. n : j # i => J[i][j] = FNeg(FMul(p[i], p[j]))

(***************************************************************************)
(* C9 (stated as claimed): for a non-empty logits, softmax_gradient        *)
(* returns the matrix J with J[i][i] = p_i (1 - p_i) and                   *)
(* J[i][j] = -p_i p_j off the diagonal, where p is the softmax of the      *)
(* logits taken after subtracting their maximum (every p_i >= 0, the p_i   *)
(* sum to 1); every row of J sums to 0.                                    *)
(***************************************************************************)
C9_SoftmaxJacobianExact ==
    (fn = "softmax_gradient" /\ args[1] # <<>>) =>
        LET n == Len(args[1])
            p == StableSoftmax(args[1])
        IN  /\ JacobianShape(out.val, p, n)
            /\ FSum(p) = One
            /\ \A i \in 1 .. n : FSum(out.val[i]) = Zero

(***************************************************************************)
(* C9 (amended): as above, with the two sums taken in float arithmetic:    *)
(* the p_i sum to 1 and every row of J sums to 0 up to rounding, that is   *)
(* within n * 2^-22 for n logits.                                          *)
(***************************************************************************)
C9_SoftmaxJacobian ==
    (fn = "softmax_gradient" /\ args[1] # <<>>) =>
        LET n == Len(args[1])
            p == StableSoftmax(args[1])
        IN  /\ JacobianShape(out.val, p, n)
            /\ FLeq(FAbs(FSub(FSum(p), One)), Tolerance(n))
            /\ \A i \in 1 .. n : FLeq(FAbs(FSum(out.val[i])), Tolerance(n))

\* three logits, not all equal, the largest not first, a row sum that rounds
C9_Witness ==
    /\ fn = "softmax_gradient"
    /\ Len(args[1]) = 3
    /\ FLess(args[1][1], args[1][2])
    /\ args[1][3] # args[1][2]
    /\ out.err = "none"
    /\ out.val[1][2] # Zero
    /\ FSum(out.val[1]) # Zero

\* |x| and the Huber function h of the error e
Magnitude(x) == IF x[1] < 0 THEN FNeg(x) ELSE x

HuberOf(e, delta) ==
    IF ~FGreater(Magnitude(e), delta)
    THEN FMul(FMul(Half, e), e)
    ELSE FMul(delta, FSub(Magnitude(e), FMul(Half, delta)))

(***************************************************************************)
(* C10: huber_loss on equal-length inputs returns the mean over the        *)
(* samples of h(e), e = prediction - target, h(e) = 0.5 e e when           *)
(* |e| <= delta and delta (|e| - 0.5 delta) otherwise; no delta is         *)
(* rejected, delta <= 0 included; huber_loss([3], [0], 1) = 2.5.           *)
(***************************************************************************)
C10_HuberMean ==
    (fn = "huber_loss" /\ ~TopMismatch) =>
        /\ out.err = "none"
        /\ out.val = Mean([i \in 1 .. Len(Preds) |->
                              HuberOf(FSub(Preds[i], Targs[i]), args[3])])
        /\ (Preds = <<ToFloat(3)>> /\ Targs = <<Zero>> /\ args[3] = One)
              => out.val = Dy(5, 1)

\* the spec's scenario: one sample outside the quadratic region
C10_Witness ==
    /\ fn = "huber_loss"
    /\ Preds = <<ToFloat(3)>> /\ Targs = <<Zero>> /\ args[3] = One
    /\ out.err = "none"
    /\ out.val = Dy(5, 1)

\* a call with delta <= 0 and a sample on the boundary |e| = delta returns
C10_WitnessNonPositiveDelta ==
    /\ fn = "huber_loss"
    /\ ~TopMismatch /\ Len(Preds) > 0
    /\ args[3] = Zero
    /\ \E i \in 1 .. Len(Preds) : Preds[i] = Targs[i]
    /\ \E i \in 1 .. Len(Preds) : Preds[i] # Targs[i]
    /\ out.err = "none"

\* the targets of a hinge_loss call are all -1 or 1
HingeTargetsValid == \A i \in 1 .. Len(Targs) : Targs[i] \in {-1, 1}

\* max(0, 1 - t p) of one sample
HingeOf(p, t) == FMax(Zero, FSub(One, FMul(ToFloat(t), p)))

\* the floats 0.8f and 0.2f
PointEight == Dy(13421773, 24)
PointTwo == Dy(13421773, 26)

(***************************************************************************)
(* C11: hinge_loss on equal-length inputs whose targets are all -1 or 1    *)
(* returns the mean over the samples of max(0, 1 - t p); the result is     *)
(* >= 0, it is 0 when every sample has t p >= 1, and                       *)
(* hinge_loss([0.8], [1]) = 0.2.                                           *)
(***************************************************************************)
C11_HingeMean ==
    (fn = "hinge_loss" /\ ~TopMismatch /\ HingeTargetsValid) =>
        /\ out.err = "none"
        /\ out.val = Mean([i \in 1 .. Len(Preds) |-> HingeOf(Preds[i], Targs[i])])
        /\ FLeq(Zero, out.val)
        /\ (\A i \in 1 .. Len(Preds) :
               FLeq(One, FMul(ToFloat(Targs[i]), Preds[i]))) => out.val = Zero
        /\ (Preds = <<PointEight>> /\ Targs = <<1>>) => out.val = PointTwo

\* -ln(prow[k]) for the classes k <= j of one sample whose target is 1, in order
RECURSIVE HotTermsOfRow(_, _, _)
HotTermsOfRow(prow, trow, j) ==
    IF j = 0 THEN <<>>
    ELSE HotTermsOfRow(prow, trow, j - 1)
            \o (IF trow[j] = One THEN <<FNeg(FLog(prow[j]))>> ELSE <<>>)

\* the same for the samples 1 .. i of a batch, in sample order then class order
RECURSIVE HotTerms(_, _, _)
HotTerms(predictions, targets, i) ==
    IF i = 0 THEN <<>>
    ELSE HotTerms(predictions, targets, i - 1)
            \o HotTermsOfRow(predictions[i], targets[i], Len(predictions[i]))

\* q has the shape of p and agrees with p wherever the target is 1
AgreeWhereHot(q, p, t) ==
    /\ Len(q) = Len(p)
    /\ \A i \in 1 .. Len(p) :
          /\ Len(q[i]) = Len(p[i])
          /\ \A j \in 1 .. Len(p[i]) : t[i][j] = One => q[i][j] = p[i][j]

(***************************************************************************)
(* C12: categorical_cross_entropy on shape-valid inputs sums               *)
(* -ln(predictions[i][j]) over exactly the positions (i, j) where          *)
(* targets[i][j] is 1 and divides by the number of samples: a sample with  *)
(* no target equal to 1 contributes nothing, a sample with several         *)
(* contributes one term for each, and the predictions at the other         *)
(* positions never affect the result.                                      *)
(***************************************************************************)
C12_CceSumsHotPositions ==
    (fn = "categorical_cross_entropy" /\ ShapeValid) =>
        LET hot == HotTerms(Preds, Targs, Len(Preds))
        IN  /\ out.err = "none"
            /\ out.terms = Len(hot)
            /\ out.val = FDiv(FSum(hot), ToFloat(Len(Preds)))
            /\ \A q \in Batches(CcePredVals, Cells(Preds)) :
                  AgreeWhereHot(q, Preds, Targs)
                     => categorical_cross_entropy(q, Targs) = out

\* one sample: a target of 1 on a probability, and a target that is neither
\* 0 nor 1 on a prediction whose logarithm is undefined
C12_Witness ==
    /\ fn = "categorical_cross_entropy"
    /\ Len(Preds) = 1 /\ Len(Targs) = 1
    /\ Len(Preds[1]) = 2 /\ Len(Targs[1]) = 2
    /\ Targs[1] = <<One, Half>>
    /\ Preds[1] = <<Half, Dy(-1, 1)>>
    /\ out.err = "none"
    /\ out.terms = 1
    /\ out.val = FNeg(FLog(Half))

\* the positions <<i, j>> of the samples 1 .. i of a batch, in sample order
\* then class order
RECURSIVE ScanOrder(_, _)
ScanOrder(predictions, i) ==
    IF i = 0 THEN <<>>
    ELSE ScanOrder(predictions, i - 1)
            \o [j \in 1 .. Len(predictions[i]) |-> <<i, j>>]

\* the samples 1 .. i have as many targets as predictions
PrefixMatched(i) == \A k \in 1 .. i : Len(Preds[k]) = Len(Targs[k])

PredAt(pos) == Preds[pos[1]][pos[2]]
TargAt(pos) == Targs[pos[1]][pos[2]]

\* the prediction or the target at this position is outside [0, 1]
Offends(pos) == NotProbability(PredAt(pos)) \/ NotProbability(TargAt(pos))

\* the terms t ln(t / p) of the positions with t # 0 among the first k scanned
KlTerms(scan, k) ==
    LET kept == SelectSeq(SubSeq(scan, 1, k), LAMBDA pos : TargAt(pos) # Zero)
    IN  [m \in 1 .. Len(kept) |->
            FMul(TargAt(kept[m]), FLog(FDiv(TargAt(kept[m]), PredAt(kept[m]))))]

(***************************************************************************)
(* C13: kullback_leibler_divergence scans its inputs in sample order then  *)
(* class order and, at each position, checks the range of the prediction   *)
(* and of the target (the prediction's first) before it tests t = 0: the   *)
(* call raises out_of_range for the first position in scan order that      *)
(* holds a value outside [0, 1], also when the target there is 0; when no  *)
(* position offends, the positions with target 0 add nothing to the sum.   *)
(***************************************************************************)
C13_KlScanOrder ==
    (fn = "kullback_leibler_divergence" /\ ~TopMismatch) =>
        LET scan == ScanOrder(Preds, Len(Preds))
        IN  /\ \A k \in 1 .. Len(scan) :
                  (/\ PrefixMatched(scan[k][1])
                   /\ Offends(scan[k])
                   /\ \A m \in 1 .. (k - 1) : ~Offends(scan[m]))
                  => /\ out.err = "out_of_range"
                     /\ out.what = IF NotProbability(PredAt(scan[k]))
                                   THEN PredRangeMsg ELSE TargRangeMsg
                     /\ out.terms = Len(KlTerms(scan, k - 1))
            /\ (~ClassMismatch /\ \A k \in 1 .. Len(scan) : ~Offends(scan[k]))
                  => /\ out.err = "none"
                     /\ out.terms = Len(KlTerms(scan, Len(scan)))
                     /\ out.val = FDiv(FSum(KlTerms(scan, Len(scan))),
                                       ToFloat(Len(Preds)))

\* a target of 0 on a prediction outside [0, 1], after a position that added
\* a term, and before a position whose target is outside [0, 1]
C13_Witness ==
    /\ fn = "kullback_leibler_divergence"
    /\ Len(Preds) = 2 /\ Len(Targs) = 2
    /\ Len(Preds[1]) = 1 /\ Len(Targs[1]) = 1
    /\ Len(Preds[2]) = 1 /\ Len(Targs[2]) = 1
    /\ Preds[1][1] = Half /\ Targs[1][1] = Half
    /\ NotProbability(Preds[2][1]) /\ Targs[2][1] = Zero
    /\ out.err = "out_of_range"
    /\ out.what = PredRangeMsg
    /\ out.terms = 1

(***************************************************************************)
(* C14: for every logits of length n, n = 0 included, softmax_gradient     *)
(* returns an n x n matrix and reads only the elements of logits at the    *)
(* indices 0 .. n-1; for the empty logits it returns the empty matrix      *)
(* without dereferencing any element.                                      *)
(***************************************************************************)
C14_SoftmaxGradientShape ==
    fn = "softmax_gradient" =>
        LET n == Len(args[1])
        IN  /\ out.err = "none"
            /\ Len(out.val) = n
            /\ \A i \in 1 .. n : Len(out.val[i]) = n
            /\ out.reads \subseteq 0 .. (n - 1)
            /\ n = 0 => (out.val = <<>> /\ out.reads = {})

====
